---------------------------- MODULE Spec2Model ----------------------------
(***************************************************************************)
(* Model of autoglm-go's segmentation-and-parsing core:                    *)
(*   - llm.ModelClient.Request: the streaming loop with its live           *)
(*     (display-only) split of thinking vs. action text, and               *)
(*     parseResponse, the authoritative split of the assembled text;       *)
(*   - helper.ParseAction with parseDoCall, parseFinishMessage and         *)
(*     parseLiteral.                                                       *)
(* Go strings are modelled as sequences of one-character strings.          *)
(***************************************************************************)
EXTENDS Integers, Sequences, FiniteSets, TLC

(***************************************************************************)
(* Bounds of the model.                                                    *)
(***************************************************************************)
\* a response text is the concatenation of at most MaxPieces pieces
MaxPieces == 2
\* a do() expression of the parser's inputs has at most MaxArgs arguments
MaxArgs == 2
\* the value tokens given to parseLiteral: every string of at most MaxTokenLen
\* characters of TokenAlphabet, and the tokens of NamedTokens
MaxTokenLen == 3
\* the messages of the finish() inputs: texts of up to MaxBodyLen characters
MaxBodyLen == 4

(***************************************************************************)
(* Package strings.                                                        *)
(***************************************************************************)
Quote == "\""
Backslash == "\\"

\* unicode.IsSpace on the characters the model uses
IsSpace(c) == c \in {" ", "\t", "\n", "\r", "\f"}

\* s[i:] of Go, i counted from 1 here: the suffix that starts at element i
From(s, i) == SubSeq(s, i, Len(s))

HasPrefix(s, p) == Len(s) >= Len(p) /\ SubSeq(s, 1, Len(p)) = p

HasSuffix(s, p) == Len(s) >= Len(p) /\ SubSeq(s, Len(s) - Len(p) + 1, Len(s)) = p

\* strings.Index, 1-based; 0 when sub does not occur in s
RECURSIVE IndexFrom(_, _, _)
IndexFrom(s, sub, i) ==
    IF i + Len(sub) - 1 > Len(s) THEN 0
    ELSE IF SubSeq(s, i, i + Len(sub) - 1) = sub THEN i
    ELSE IndexFrom(s, sub, i + 1)

Index(s, sub) == IndexFrom(s, sub, 1)

Contains(s, sub) == Index(s, sub) # 0

\* strings.TrimLeftFunc / TrimRightFunc with unicode.IsSpace
RECURSIVE TrimLeft(_)
TrimLeft(s) ==
    IF s # <<>> /\ IsSpace(Head(s)) THEN TrimLeft(Tail(s)) ELSE s

RECURSIVE TrimRight(_)
TrimRight(s) ==
    IF s # <<>> /\ IsSpace(s[Len(s)]) THEN TrimRight(SubSeq(s, 1, Len(s) - 1)) ELSE s

TrimSpace(s) == TrimRight(TrimLeft(s))

TrimPrefix(s, p) == IF HasPrefix(s, p) THEN From(s, Len(p) + 1) ELSE s

TrimSuffix(s, p) == IF HasSuffix(s, p) THEN SubSeq(s, 1, Len(s) - Len(p)) ELSE s

\* strings.SplitN(s, sep, 2): <<before, after>> around the first sep, or <<s>>
SplitN2(s, sep) ==
    LET i == Index(s, sep)
    IN  IF i = 0 THEN <<s>>
        ELSE <<SubSeq(s, 1, i - 1), From(s, i + Len(sep))>>

\* strings.Split(s, sep), sep non-empty: all the pieces, left to right
RECURSIVE Split(_, _)
Split(s, sep) ==
    LET i == Index(s, sep)
    IN  IF i = 0 THEN <<s>>
        ELSE <<SubSeq(s, 1, i - 1)>> \o Split(From(s, i + Len(sep)), sep)

\* strings.ReplaceAll(s, old, ""), old non-empty
RECURSIVE RemoveAll(_, _)
RemoveAll(s, old) ==
    LET i == Index(s, old)
    IN  IF i = 0 THEN s
        ELSE SubSeq(s, 1, i - 1) \o RemoveAll(From(s, i + Len(old)), old)

\* strings.Join
RECURSIVE Join(_, _)
Join(ss, sep) ==
    IF ss = <<>> THEN <<>>
    ELSE IF Len(ss) = 1 THEN ss[1]
    ELSE ss[1] \o sep \o Join(Tail(ss), sep)

(***************************************************************************)
(* llm: the markers and parseResponse.                                     *)
(***************************************************************************)
FinishMarker == <<"f","i","n","i","s","h","(","m","e","s","s","a","g","e","=">>
DoMarker == <<"d","o","(","a","c","t","i","o","n","=">>

\* actionMarkers of Request, in its order
actionMarkers == <<FinishMarker, DoMarker>>

AnswerTag == <<"<","a","n","s","w","e","r",">">>
AnswerEndTag == <<"<","/","a","n","s","w","e","r",">">>
ThinkTag == <<"<","t","h","i","n","k",">">>
ThinkEndTag == <<"<","/","t","h","i","n","k",">">>

\* a bug: the marker that occurs first in the text is selected
parseResponseEarliest(content) ==
    LET f == Index(content, FinishMarker)
        d == Index(content, DoMarker)
        i == IF f = 0 THEN d ELSE IF d = 0 THEN f ELSE IF f < d THEN f ELSE d
    IN  IF i # 0
        THEN [thinking |-> TrimSpace(SubSeq(content, 1, i - 1)), action |-> From(content, i)]
        ELSE [thinking |-> <<>>, action |-> content]

\* a bug: only a closing tag at the end of the answer is removed
parseResponseTrailingTag(content) ==
    IF Contains(content, FinishMarker)
    THEN LET parts == SplitN2(content, FinishMarker)
         IN  [thinking |-> TrimSpace(parts[1]), action |-> FinishMarker \o parts[2]]
    ELSE IF Contains(content, DoMarker)
    THEN LET parts == SplitN2(content, DoMarker)
         IN  [thinking |-> TrimSpace(parts[1]), action |-> DoMarker \o parts[2]]
    ELSE IF Contains(content, AnswerTag)
    THEN LET parts == SplitN2(content, AnswerTag)
         IN  [thinking |-> TrimSpace(RemoveAll(RemoveAll(parts[1], ThinkTag), ThinkEndTag)),
              action |-> TrimSpace(TrimSuffix(TrimSpace(parts[2]), AnswerEndTag))]
    ELSE [thinking |-> <<>>, action |-> content]

\* parseResponse(content): the pair (thinking, action)
parseResponse(content) ==
    IF Contains(content, FinishMarker)
    THEN LET parts == SplitN2(content, FinishMarker)
         IN  [thinking |-> TrimSpace(parts[1]), action |-> FinishMarker \o parts[2]]
    ELSE IF Contains(content, DoMarker)
    THEN LET parts == SplitN2(content, DoMarker)
         IN  [thinking |-> TrimSpace(parts[1]), action |-> DoMarker \o parts[2]]
    ELSE IF Contains(content, AnswerTag)
    THEN LET parts == SplitN2(content, AnswerTag)
         IN  [thinking |-> TrimSpace(RemoveAll(RemoveAll(parts[1], ThinkTag), ThinkEndTag)),
              action |-> TrimSpace(RemoveAll(parts[2], AnswerEndTag))]
    ELSE [thinking |-> <<>>, action |-> content]

(***************************************************************************)
(* helper: the values of an Action.  A Go int is kept as its sign and its  *)
(* decimal digits (no leading zeros), a float64 as sign, significant       *)
(* digits (no leading or trailing zeros) and decimal exponent, so that no  *)
(* value is cut to the checker's own integer width.                        *)
(***************************************************************************)
StrVal(s) == [type |-> "string", str |-> s]
BoolVal(b) == [type |-> "bool", b |-> b]
IntVal(neg, mag) == [type |-> "int", neg |-> neg, mag |-> mag]
IntsVal(elems) == [type |-> "ints", elems |-> elems]
FloatVal(neg, mant, exp) == [type |-> "float", neg |-> neg, mant |-> mant, exp |-> exp]

LiteralTypes == {"string", "bool", "int", "float", "ints"}

\* results of the parsers: a value, an error, or a run-time panic
Ok(v) == [kind |-> "ok", val |-> v]
Err(msg, what) == [kind |-> "err", err |-> msg, what |-> what]
Panic == [kind |-> "panic"]

Digits == <<"0","1","2","3","4","5","6","7","8","9">>
IsDigit(c) == \E d \in 1..10 : Digits[d] = c
DigitVal(c) == (CHOOSE d \in 1..10 : Digits[d] = c) - 1

\* the index after the run of digits of s that starts at i
RECURSIVE ScanDigits(_, _)
ScanDigits(s, i) ==
    IF i <= Len(s) /\ IsDigit(s[i]) THEN ScanDigits(s, i + 1) ELSE i

RECURSIVE StripLeadingZeros(_)
StripLeadingZeros(ds) ==
    IF ds # <<>> /\ Head(ds) = "0" THEN StripLeadingZeros(Tail(ds)) ELSE ds

RECURSIVE StripTrailingZeros(_)
StripTrailingZeros(ds) ==
    IF ds # <<>> /\ ds[Len(ds)] = "0"
    THEN StripTrailingZeros(SubSeq(ds, 1, Len(ds) - 1)) ELSE ds

\* a < b for digit strings of the same length
RECURSIVE DigitsLess(_, _)
DigitsLess(a, b) ==
    IF a = <<>> THEN FALSE
    ELSE IF Head(a) # Head(b) THEN DigitVal(Head(a)) < DigitVal(Head(b))
    ELSE DigitsLess(Tail(a), Tail(b))

\* strconv.IntSize on a 64-bit build: the magnitudes of math.MaxInt64 and math.MinInt64
MaxIntMag == <<"9","2","2","3","3","7","2","0","3","6","8","5","4","7","7","5","8","0","7">>
MinIntMag == <<"9","2","2","3","3","7","2","0","3","6","8","5","4","7","7","5","8","0","8">>

\* the magnitude mag (no leading zeros) fits an int of that sign
InIntRange(neg, mag) ==
    LET lim == IF neg THEN MinIntMag ELSE MaxIntMag
    IN  \/ Len(mag) < Len(lim)
        \/ Len(mag) = Len(lim) /\ ~DigitsLess(lim, mag)

\* strconv.Atoi: an optional sign, then one or more decimal digits, in range
Atoi(s) ==
    LET signed == s # <<>> /\ Head(s) \in {"+", "-"}
        neg    == s # <<>> /\ Head(s) = "-"
        ds     == IF signed THEN Tail(s) ELSE s
        mag    == StripLeadingZeros(ds)
    IN  IF ds = <<>> \/ ScanDigits(ds, 1) # Len(ds) + 1
        THEN [ok |-> FALSE, why |-> "syntax"]
        ELSE IF mag = <<>>
        THEN [ok |-> TRUE, val |-> IntVal(FALSE, <<"0">>)]
        ELSE IF ~InIntRange(neg, mag)
        THEN [ok |-> FALSE, why |-> "range"]
        ELSE [ok |-> TRUE, val |-> IntVal(neg, mag)]

\* the value of a short run of digits (an exponent)
RECURSIVE DigitsToNat(_, _)
DigitsToNat(ds, acc) ==
    IF ds = <<>> THEN acc ELSE DigitsToNat(Tail(ds), 10 * acc + DigitVal(Head(ds)))

\* strconv.ParseFloat(s, 64) on decimal syntax: sign, digits with at most one
\* point, optional exponent.  (Hexadecimal floats, "inf" and "nan" are not
\* modelled; no token of the model is one. The exponents of the model are far
\* from float64's range, and the decimals that the round trip writes back are
\* float64s whose shortest digits are the decimal's own.)
ParseFloat(s) ==
    LET signed == s # <<>> /\ Head(s) \in {"+", "-"}
        neg    == s # <<>> /\ Head(s) = "-"
        i0     == IF signed THEN 2 ELSE 1
        i1     == ScanDigits(s, i0)
        hasDot == i1 <= Len(s) /\ s[i1] = "."
        i2     == IF hasDot THEN ScanDigits(s, i1 + 1) ELSE i1
        intp   == SubSeq(s, i0, i1 - 1)
        frac   == IF hasDot THEN SubSeq(s, i1 + 1, i2 - 1) ELSE <<>>
        hasExp == i2 <= Len(s) /\ s[i2] \in {"e", "E"}
        eSign  == hasExp /\ i2 + 1 <= Len(s) /\ s[i2 + 1] \in {"+", "-"}
        eNeg   == eSign /\ s[i2 + 1] = "-"
        i3     == IF eSign THEN i2 + 2 ELSE i2 + 1
        i4     == IF hasExp THEN ScanDigits(s, i3) ELSE i2
        eDigs  == IF hasExp THEN SubSeq(s, i3, i4 - 1) ELSE <<>>
        e      == IF eNeg THEN 0 - DigitsToNat(eDigs, 0) ELSE DigitsToNat(eDigs, 0)
        all    == StripLeadingZeros(intp \o frac)
        mant   == StripTrailingZeros(all)
    IN  IF intp \o frac = <<>> \/ (hasExp /\ eDigs = <<>>) \/ i4 # Len(s) + 1
        THEN [ok |-> FALSE, why |-> "syntax"]
        ELSE IF mant = <<>>
        THEN [ok |-> TRUE, val |-> FloatVal(FALSE, <<>>, 0)]
        ELSE [ok |-> TRUE,
              val |-> FloatVal(neg, mant, e - Len(frac) + (Len(all) - Len(mant)))]

\* the elements of an integer sequence: Atoi(TrimSpace(p)) for each piece,
\* stopping at the first piece that is no int
RECURSIVE parseIntParts(_, _)
parseIntParts(parts, acc) ==
    IF parts = <<>> THEN Ok(IntsVal(acc))
    ELSE LET v == Atoi(TrimSpace(Head(parts)))
         IN  IF ~v.ok THEN Err("invalid int in array", Head(parts))
             ELSE parseIntParts(Tail(parts), Append(acc, v.val))

\* a bug: the string rule looks at the opening quote only
IsQuotedOpenOnly(s) == HasPrefix(s, <<Quote>>)

\* the test of the string rule (line 102)
IsQuoted(s) == HasPrefix(s, <<Quote>>) /\ HasSuffix(s, <<Quote>>)

\* a bug: the string rule keeps the quotes
UnquoteKeepsQuotes(s) == s

\* s[1 : len(s)-1] of the string rule (line 103), on a token of two or more
\* characters
Unquote(s) == SubSeq(s, 2, Len(s) - 1)

\* parseLiteral(s).  s[1:len(s)-1] panics (slice bounds out of range [1:0])
\* when s is one character long
parseLiteral(s) ==
    IF IsQuoted(s)
    THEN IF Len(s) < 2 THEN Panic ELSE Ok(StrVal(Unquote(s)))
    ELSE IF s = <<"t","r","u","e">> THEN Ok(BoolVal(TRUE))
    ELSE IF s = <<"f","a","l","s","e">> THEN Ok(BoolVal(FALSE))
    ELSE IF HasPrefix(s, <<"[">>) /\ HasSuffix(s, <<"]">>)
    THEN LET content == TrimSpace(SubSeq(s, 2, Len(s) - 1))
         IN  IF content = <<>> THEN Ok(IntsVal(<<>>))
             ELSE parseIntParts(Split(content, <<",">>), <<>>)
    ELSE IF Atoi(TrimSpace(s)).ok THEN Ok(Atoi(TrimSpace(s)).val)
    ELSE IF ParseFloat(TrimSpace(s)).ok THEN Ok(ParseFloat(TrimSpace(s)).val)
    ELSE Err("unsupported literal", s)

(***************************************************************************)
(* helper: ParseAction.  A call returns the pair (Action, error) or panics.*)
(* An Action is a function from keys to values.                            *)
(***************************************************************************)
NilAction == [nil |-> TRUE]
SomeAction(m) == [nil |-> FALSE, m |-> m]
NilError == [nil |-> TRUE]
SomeError(msg, what) == [nil |-> FALSE, msg |-> msg, what |-> what]

Return(action, err) == [kind |-> "return", action |-> action, err |-> err]

MetaKey == <<"_","m","e","t","a","d","a","t","a">>
MessageKey == <<"m","e","s","s","a","g","e">>
DoPrefix == <<"d","o","(">>
FinishPrefix == <<"f","i","n","i","s","h">>
CloseParen == <<")">>
ArgSep == <<",", " ">>

\* action[key] = val on a Go map
MapSet(m, key, val) ==
    [k \in DOMAIN m \cup {key} |-> IF k = key THEN val ELSE m[k]]

\* Action{"_metadata": kind}
NewAction(kind) == [k \in {MetaKey} |-> StrVal(kind)]

\* a bug: the token is split at every =
SplitKeyValueAll(part) == Split(part, <<"=">>)

\* kv := strings.SplitN(part, "=", 2) (line 71)
SplitKeyValue(part) == SplitN2(part, <<"=">>)

\* the loop of parseDoCall over the argument tokens (lines 70-86)
RECURSIVE parseDoArgs(_, _)
parseDoArgs(parts, action) ==
    IF parts = <<>> THEN Return(SomeAction(action), NilError)
    ELSE LET part   == Head(parts)
             kv     == SplitKeyValue(part)
             key    == TrimSpace(kv[1])
             valStr == TrimSpace(kv[2])
             val    == parseLiteral(valStr)
         IN  IF Len(kv) # 2
             THEN Return(NilAction, SomeError("invalid argument", part))
             ELSE IF val.kind = "panic" THEN Panic
             ELSE IF val.kind = "err"
             THEN Return(NilAction, SomeError("invalid value", key))
             ELSE parseDoArgs(Tail(parts), MapSet(action, key, val.val))

\* a bug: the closing parenthesis is not required
DoSyntaxPrefixOnly(expr) == HasPrefix(expr, DoPrefix)

\* line 54: expr has the prefix do( and the suffix )
DoSyntax(expr) == HasPrefix(expr, DoPrefix) /\ HasSuffix(expr, CloseParen)

\* parseDoCall(expr)
parseDoCall(expr) ==
    IF ~DoSyntax(expr)
    THEN Return(NilAction, SomeError("invalid do() syntax", expr))
    ELSE LET body == TrimSuffix(TrimPrefix(expr, DoPrefix), CloseParen)
         IN  IF TrimSpace(body) = <<>>
             THEN Return(SomeAction(NewAction(<<"d","o">>)), NilError)
             ELSE parseDoArgs(Split(body, ArgSep), NewAction(<<"d","o">>))

\* messageRe = `message="((?:\\.|[^"])*)"`
MessageOpen == <<"m","e","s","s","a","g","e","=","\"">>

\* a bug: the body is [^"]*, a backslash escapes nothing
MatchBodyNoEscape(s, i) == IndexFrom(s, <<Quote>>, i)

\* the body ((?:\\.|[^"])*)" matched from position i with the preferences of
\* Go's regexp (leftmost-first: \\. before [^"], one more repetition before
\* leaving the star): the position of the closing quote, 0 when there is no match
RECURSIVE MatchBody(_, _)
MatchBody(s, i) ==
    LET esc   == IF i + 1 <= Len(s) /\ s[i] = Backslash /\ s[i + 1] # "\n"
                 THEN MatchBody(s, i + 2) ELSE 0
        plain == IF i <= Len(s) /\ s[i] # Quote THEN MatchBody(s, i + 1) ELSE 0
    IN  IF esc # 0 THEN esc
        ELSE IF plain # 0 THEN plain
        ELSE IF i <= Len(s) /\ s[i] = Quote THEN i
        ELSE 0

\* messageRe.FindStringSubmatch(s), trying the occurrences of message=" from
\* the left: the matches, <<whole, submatch>>, or <<>> when nothing matches
RECURSIVE FindMessage(_, _)
FindMessage(s, from) ==
    LET p == IndexFrom(s, MessageOpen, from)
        q == MatchBody(s, p + Len(MessageOpen))
    IN  IF p = 0 THEN <<>>
        ELSE IF q # 0
        THEN <<SubSeq(s, p, q), SubSeq(s, p + Len(MessageOpen), q - 1)>>
        ELSE FindMessage(s, p + 1)

\* parseFinishMessage(s): (message, error)
parseFinishMessage(s) ==
    LET matches == FindMessage(s, 1)
    IN  IF Len(matches) < 2
        THEN [msg |-> <<>>, err |-> SomeError("message not found", s)]
        ELSE [msg |-> matches[2], err |-> NilError]

\* a bug: ParseAction strips the legacy tags itself
TrimmedLegacy(rawActionStr) ==
    IF Contains(rawActionStr, AnswerTag)
    THEN TrimSpace(RemoveAll(SplitN2(rawActionStr, AnswerTag)[2], AnswerEndTag))
    ELSE TrimSpace(rawActionStr)

\* rawActionStr = strings.TrimSpace(rawActionStr) (line 25)
Trimmed(rawActionStr) == TrimSpace(rawActionStr)

\* ParseAction(rawActionStr)
ParseAction(rawActionStr) ==
    LET s == Trimmed(rawActionStr)
    IN  IF HasPrefix(s, DoPrefix)
        THEN LET r == parseDoCall(s)
             IN  IF r.kind = "panic" THEN Panic
                 ELSE IF ~r.err.nil
                 THEN Return(NilAction, SomeError("failed to parse do() action", r.err))
                 ELSE Return(r.action, NilError)
        ELSE IF HasPrefix(s, FinishPrefix)
        THEN LET f == parseFinishMessage(s)
             IN  IF ~f.err.nil THEN Return(NilAction, f.err)
                 ELSE Return(SomeAction(MapSet(NewAction(FinishPrefix), MessageKey,
                                               StrVal(f.msg))),
                             NilError)
        ELSE Return(NilAction, SomeError("failed to parse action", s))

(***************************************************************************)
(* State.  text/sent are the server's side of the stream; the rest up to   *)
(* response are the locals of one ModelClient.Request call, printed is the *)
(* text the live path wrote to standard output, flips counts the           *)
(* assignments inActionPhase = true.  input..reparsed are one call of      *)
(* helper.ParseAction and the round trip of its result, token and lit one  *)
(* call of parseLiteral.                                                   *)
(***************************************************************************)
VARIABLES text, sent, pc, streamOpen, streamsOpened,
          rawContent, thinkingBuf, inActionPhase, firstTokenReceived,
          timeToFirstToken, timeToThinkingEnd, printed, flips, response,
          input, ppc, result, written, reparsed, token, lit

streamVars == <<text, sent, pc, streamOpen, streamsOpened,
                rawContent, thinkingBuf, inActionPhase, firstTokenReceived,
                timeToFirstToken, timeToThinkingEnd, printed, flips, response>>
parseVars == <<input, ppc, result, written, reparsed, token, lit>>
vars == <<streamVars, parseVars>>

\* a nil *float64
Nil == [set |-> FALSE]
\* a *float64 holding the reading t of the clock
At(t) == [set |-> TRUE, t |-> t]

\* (nil, err) of Request
NoResponse == [ok |-> FALSE]

(***************************************************************************)
(* The response texts of the model: up to MaxPieces pieces in a row.       *)
(***************************************************************************)
Pieces == { <<"h","e","l","l","o"," ">>, <<"d","o","(">>, DoMarker, FinishMarker, <<"x">> }

RECURSIVE TextsOf(_)
TextsOf(n) ==
    IF n = 0 THEN { <<>> }
    ELSE LET shorter == TextsOf(n - 1)
         IN  shorter \cup { t \o p : t \in shorter, p \in Pieces }

\* texts in the legacy format, and texts without any marker or tag
LegacyTexts == { <<"<","t","h","i","n","k",">","f","o","o","<","/","t","h","i","n","k",">","<","a","n","s","w","e","r",">","b","a","r","<","/","a","n","s","w","e","r",">">>,
                 <<"n","o"," ","m","a","r","k","e","r","s"," ","h","e","r","e">>,
                 <<"<","a","n","s","w","e","r",">","a","<","/","a","n","s","w","e","r",">","b">>,
                 <<" ","<","t","h","i","n","k",">"," ","a"," ","<","/","t","h","i","n","k",">"," ","b"," ","<","a","n","s","w","e","r",">"," ","c"," ","<","/","a","n","s","w","e","r",">"," ">>,
                 <<"<","a","n","s","w","e","r",">","a","<","a","n","s","w","e","r",">","b","<","/","a","n","s","w","e","r",">","<","/","a","n","s","w","e","r",">">>,
                 <<"x","<","/","a","n","s","w","e","r",">","<","t","h","i","n","k",">">>,
                 <<"<","a","n","s","w","e","r",">","<","t","h","i","n","k",">","a","<","/","t","h","i","n","k",">">>,
                 <<"<","t","h","i","n","k",">","a","<","t","h","i","n","k",">","b","<","/","t","h","i","n","k",">","<","/","t","h","i","n","k",">","<","a","n","s","w","e","r",">">>,
                 <<"<","a","n","s","w","e","r",">","x","<","/","a","n","s","w","e","r",">"," ","d","o","(">>,
                 <<"<","a","n","s","w","e","r",">"," ","d">>,
                 <<" ","I"," ","d","o","\n">> }

Texts == TextsOf(MaxPieces) \cup LegacyTexts

\* parse-side variables while no ParseAction call is modelled
ParseIdle ==
    /\ input = <<>>
    /\ ppc = "idle"
    /\ result = [kind |-> "none"]
    /\ written = <<>>
    /\ reparsed = [kind |-> "none"]
    /\ token = <<>>
    /\ lit = [kind |-> "none"]

Init ==
    /\ text \in Texts
    /\ sent = 0
    /\ pc = "start"
    /\ streamOpen = FALSE
    /\ streamsOpened = 0
    /\ rawContent = <<>>
    /\ thinkingBuf = <<>>
    /\ inActionPhase = FALSE
    /\ firstTokenReceived = FALSE
    /\ timeToFirstToken = Nil
    /\ timeToThinkingEnd = Nil
    /\ printed = <<>>
    /\ flips = 0
    /\ response = NoResponse
    /\ ParseIdle

(***************************************************************************)
(* ModelClient.Request.                                                    *)
(***************************************************************************)
\* time.Since(startTime) when the delta that ends at character n is handled:
\* the clock is read in characters received
Since(n) == n

\* a bug: a marker is found only at the start of buf
FoundMarkerAtStart(buf) ==
    IF HasPrefix(buf, actionMarkers[1]) THEN 1
    ELSE IF HasPrefix(buf, actionMarkers[2]) THEN 2
    ELSE 0

\* the first marker of actionMarkers that buf contains, as its index; 0 if none
FoundMarker(buf) ==
    IF Contains(buf, actionMarkers[1]) THEN 1
    ELSE IF Contains(buf, actionMarkers[2]) THEN 2
    ELSE 0

\* a bug: only the first marker's prefixes are looked for
IsPotentialMarkerFirstOnly(buf) ==
    \E i \in 1..(Len(actionMarkers[1]) - 1) :
        HasSuffix(buf, SubSeq(actionMarkers[1], 1, i))

\* lines 137-148: buf ends with a non-empty proper prefix of a marker
IsPotentialMarker(buf) ==
    \E k \in 1..Len(actionMarkers) :
        \E i \in 1..(Len(actionMarkers[k]) - 1) :
            HasSuffix(buf, SubSeq(actionMarkers[k], 1, i))

\* CreateChatCompletionStream succeeds; defer stream.Close() is armed
CreateStream ==
    /\ pc = "start"
    /\ pc' = "recv"
    /\ streamOpen' = TRUE
    /\ streamsOpened' = streamsOpened + 1
    /\ UNCHANGED <<text, sent, rawContent, thinkingBuf, inActionPhase,
                   firstTokenReceived, timeToFirstToken, timeToThinkingEnd,
                   printed, flips, response>>
    /\ UNCHANGED parseVars

\* CreateChatCompletionStream fails: return nil, err
CreateStreamFails ==
    /\ pc = "start"
    /\ pc' = "failed"
    /\ response' = NoResponse
    /\ UNCHANGED <<text, sent, streamOpen, streamsOpened, rawContent, thinkingBuf,
                   inActionPhase, firstTokenReceived, timeToFirstToken,
                   timeToThinkingEnd, printed, flips>>
    /\ UNCHANGED parseVars

\* a bug: the live path goes on after the flip
NeverSkipLivePath == FALSE

\* if inActionPhase { continue } (line 105)
SkipLivePath == inActionPhase

\* a bug: the whole buffer is printed at the flip, the marker with it
ThinkingPartWhole(buf, marker) == buf

\* thinkingPart := strings.SplitN(thinkingBufStr, marker, 2)[0] (line 117)
ThinkingPart(buf, marker) == SplitN2(buf, marker)[1]

\* a bug: a delta that arrives in action phase is not kept
RawAppendThinkingOnly(delta) == IF inActionPhase THEN rawContent ELSE rawContent \o delta

\* rawContent.WriteString(delta) (line 96), before the phase is looked at
RawAppend(delta) == rawContent \o delta

\* the body of the loop for a chunk whose delta is non-empty (lines 96-154)
HandleDelta(delta) ==
    LET now == Since(sent + Len(delta))
        buf == thinkingBuf \o delta
        k   == FoundMarker(buf)
    IN  /\ rawContent' = RawAppend(delta)
        /\ firstTokenReceived' = TRUE
        /\ timeToFirstToken' = IF firstTokenReceived THEN timeToFirstToken ELSE At(now)
        /\ IF SkipLivePath
           THEN UNCHANGED <<thinkingBuf, inActionPhase, timeToThinkingEnd, printed, flips>>
           ELSE IF k # 0
           THEN /\ thinkingBuf' = buf
                /\ printed' = printed \o ThinkingPart(buf, actionMarkers[k])
                /\ inActionPhase' = TRUE
                /\ flips' = flips + 1
                /\ timeToThinkingEnd' =
                       IF timeToThinkingEnd = Nil THEN At(now) ELSE timeToThinkingEnd
           ELSE IF IsPotentialMarker(buf)
           THEN /\ thinkingBuf' = buf
                /\ UNCHANGED <<inActionPhase, timeToThinkingEnd, printed, flips>>
           ELSE /\ printed' = printed \o buf
                /\ thinkingBuf' = <<>>
                /\ UNCHANGED <<inActionPhase, timeToThinkingEnd, flips>>

\* stream.Recv returns a chunk with a non-empty delta: the next n characters
RecvDelta ==
    /\ pc = "recv"
    /\ \E n \in 1..(Len(text) - sent) :
          /\ HandleDelta(SubSeq(text, sent + 1, sent + n))
          /\ sent' = sent + n
    /\ UNCHANGED <<text, pc, streamOpen, streamsOpened, response>>
    /\ UNCHANGED parseVars

\* a bug: an empty delta is handled like any other
NeverSkipsDelta(delta) == FALSE

\* if delta == "" { continue } (lines 92-94)
SkipsDelta(delta) == delta = <<>>

\* stream.Recv returns a chunk without choices, or with an empty delta: continue
RecvEmpty ==
    /\ pc = "recv"
    /\ IF SkipsDelta(<<>>)
       THEN UNCHANGED <<rawContent, thinkingBuf, inActionPhase, firstTokenReceived,
                        timeToFirstToken, timeToThinkingEnd, printed, flips>>
       ELSE HandleDelta(<<>>)
    /\ UNCHANGED <<text, sent, pc, streamOpen, streamsOpened, response>>
    /\ UNCHANGED parseVars

\* a bug: the stream is left open when Request returns
NoDeferredClose == streamOpen

\* defer stream.Close() (line 73): the stream is closed when Request returns
DeferredClose == FALSE

\* a bug: what is left in thinkingBuf is printed at end of stream
PrintedAtEOFFlushed == IF inActionPhase THEN printed ELSE printed \o thinkingBuf

\* lines 157-176 print nothing: standard output after the loop
PrintedAtEOF == printed

\* stream.Recv returns io.EOF: break, parseResponse, return the ModelResponse;
\* the deferred stream.Close() runs
RecvEOF ==
    /\ pc = "recv"
    /\ sent = Len(text)
    /\ pc' = "done"
    /\ streamOpen' = DeferredClose
    /\ response' = [ok |-> TRUE,
                    Thinking |-> parseResponse(rawContent).thinking,
                    Action |-> parseResponse(rawContent).action,
                    RawContent |-> rawContent,
                    TimeToFirstToken |-> timeToFirstToken,
                    TimeToThinkingEnd |-> timeToThinkingEnd]
    /\ printed' = PrintedAtEOF
    /\ UNCHANGED <<text, sent, streamsOpened, rawContent, thinkingBuf, inActionPhase,
                   firstTokenReceived, timeToFirstToken, timeToThinkingEnd, flips>>
    /\ UNCHANGED parseVars

\* a bug: after a stream error Request opens another stream
RetryOnError == "start"

\* return nil, err (line 84): Request is over after a stream error
OnStreamError == "failed"

\* stream.Recv returns another error (transport failure, cancellation):
\* return nil, err; the deferred stream.Close() runs
RecvError ==
    /\ pc = "recv"
    /\ pc' = OnStreamError
    /\ streamOpen' = DeferredClose
    /\ response' = NoResponse
    /\ UNCHANGED <<text, sent, streamsOpened, rawContent, thinkingBuf, inActionPhase,
                   firstTokenReceived, timeToFirstToken, timeToThinkingEnd,
                   printed, flips>>
    /\ UNCHANGED parseVars

Next ==
    \/ CreateStream
    \/ CreateStreamFails
    \/ RecvDelta
    \/ RecvEmpty
    \/ RecvEOF
    \/ RecvError

Spec == Init /\ [][Next]_vars

(***************************************************************************)
(* Writing an Action back as text (the round trip of the specification;    *)
(* the repository has no writer).  Values are written in Go's literal form:*)
(* strings re-quoted, strconv.Itoa for ints, strconv.FormatFloat(f, 'g',   *)
(* -1, 64) for floats, as fmt prints them.                                 *)
(***************************************************************************)
RECURSIVE NatToDigits(_)
NatToDigits(n) ==
    IF n < 10 THEN <<Digits[n + 1]>> ELSE Append(NatToDigits(n \div 10), Digits[(n % 10) + 1])

Zeros(n) == [i \in 1..n |-> "0"]

FormatInt(v) == (IF v.neg THEN <<"-">> ELSE <<>>) \o v.mag

\* strconv.FormatFloat(f, 'g', -1, 64): %e when the exponent is below -4 or at
\* least 6, %f otherwise, with the shortest digits that give f back
FormatFloat(v) ==
    LET nd   == Len(v.mant)
        dp   == nd + v.exp
        x    == dp - 1
        sign == IF v.neg THEN <<"-">> ELSE <<>>
        xs   == IF x < 0 THEN NatToDigits(0 - x) ELSE NatToDigits(x)
    IN  IF nd = 0 THEN <<"0">>
        ELSE IF x < -4 \/ x >= 6
        THEN sign \o <<v.mant[1]>>
                  \o (IF nd > 1 THEN <<".">> \o SubSeq(v.mant, 2, nd) ELSE <<>>)
                  \o <<"e">> \o (IF x < 0 THEN <<"-">> ELSE <<"+">>)
                  \o (IF Len(xs) < 2 THEN <<"0">> ELSE <<>>) \o xs
        ELSE sign \o (IF dp > 0
                      THEN SubSeq(v.mant, 1, IF dp < nd THEN dp ELSE nd)
                           \o Zeros(IF dp > nd THEN dp - nd ELSE 0)
                      ELSE <<"0">>)
                  \o (IF nd > dp
                      THEN <<".">> \o Zeros(IF dp < 0 THEN 0 - dp ELSE 0)
                                   \o SubSeq(v.mant, (IF dp > 0 THEN dp ELSE 0) + 1, nd)
                      ELSE <<>>)

RECURSIVE FormatInts(_)
FormatInts(elems) ==
    IF elems = <<>> THEN <<>>
    ELSE <<FormatInt(Head(elems))>> \o FormatInts(Tail(elems))

\* the value token of a value
WriteLiteral(v) ==
    CASE v.type = "string" -> <<Quote>> \o v.str \o <<Quote>>
      [] v.type = "bool"   -> IF v.b THEN <<"t","r","u","e">> ELSE <<"f","a","l","s","e">>
      [] v.type = "int"    -> FormatInt(v)
      [] v.type = "ints"   -> <<"[">> \o Join(FormatInts(v.elems), <<",">>) \o <<"]">>
      [] v.type = "float"  -> FormatFloat(v)

\* the key=value tokens of the keys, in their order
RECURSIVE WriteArgs(_, _)
WriteArgs(m, keys) ==
    IF keys = <<>> THEN <<>>
    ELSE <<Head(keys) \o <<"=">> \o WriteLiteral(m[Head(keys)])>> \o WriteArgs(m, Tail(keys))

\* do(key=value, ...)
WriteDo(m, keys) == DoPrefix \o Join(WriteArgs(m, keys), ArgSep) \o CloseParen

\* the argument names of an accepted do() expression
OriginalKeys(expr) ==
    LET body  == TrimSuffix(TrimPrefix(TrimSpace(expr), DoPrefix), CloseParen)
        parts == Split(body, ArgSep)
    IN  IF TrimSpace(body) = <<>> THEN {}
        ELSE { TrimSpace(SplitN2(parts[i], <<"=">>)[1]) : i \in 1..Len(parts) }

\* the orders in which a set of keys can be written
Orders(keys) ==
    { q \in [1..Cardinality(keys) -> keys] : \A i, j \in DOMAIN q : i # j => q[i] # q[j] }

(***************************************************************************)
(* The inputs of ParseAction in the model.                                 *)
(***************************************************************************)
\* argument tokens
Args == { <<"a","=","\"","x","\"">>,
          <<"a","=","\"">>,
          <<"a","=","\"","t","r","u","e","\"">>,
          <<"a","=","t","r","u","e">>,
          <<"a","=","f","a","l","s","e">>,
          <<"a","=","-","1","2">>,
          <<"a","=","[","1",",","2","]">>,
          <<"a","=","[","]">>,
          <<"a","=","[","1",",","x","]">>,
          <<"a","=","[">>,
          <<"a","=","2",".","0">>,
          <<"a","=","1","e","2">>,
          <<"a","=","a","b","c">>,
          <<"a","=","1","0","0","0","0","0","0","0","0","0","0","0","0","0","0","0","0","0","0","0">>,
          <<"a","=","\""," ","y"," ","\"">>,
          <<"a","=","+","0","7">>,
          <<"b","=","\"","x","\"">>,
          <<"_","m","e","t","a","d","a","t","a","=","\"","x","\"">>,
          <<"n","o","e","q">>,
          <<" ","c"," ","="," ","7"," ">> }

RECURSIVE ArgLists(_)
ArgLists(n) ==
    IF n = 0 THEN { <<>> }
    ELSE LET shorter == ArgLists(n - 1)
         IN  shorter \cup { Append(l, a) : l \in shorter, a \in Args }

DoInputs == { DoPrefix \o Join(l, ArgSep) \o CloseParen : l \in ArgLists(MaxArgs) }

MoreDoInputs == { <<"d","o","(","a","=","1",".","5",")">>,
                  <<"d","o","(","a","=","9","2","2","3","3","7","2","0","3","6","8","5","4","7","7","5","8","0","7",")">>,
                  <<"d","o","(","a","=","-","9","2","2","3","3","7","2","0","3","6","8","5","4","7","7","5","8","0","8",")">>,
                  <<"d","o","(","a","=","\"","a","=","b","\"",")">>,
                  <<"d","o","(","a","=","["," ","3"," ",",","-","4"," ","]",")">>,
                  <<"d","o","(","a","=","0",".","0","0","0","0","1",")">>,
                  <<"d","o","(","a","=","1","5","0","0","0","0","0",".","0",")">>,
                  <<"d","o","(","a","=","-","0",".","2","5",")">>,
                  <<"d","o","(","a","=","t","r","u","e",","," ","a","=","\"","t","r","u","e","\"",")">>,
                  <<" ","d","o","(",")"," ">>,
                  <<"d","o","("," ",")">>,
                  <<"d","o","(","a","c","t","i","o","n","=","\"","x","\"">>,
                  <<"d","o","(","a","=","\"","x","\"",",","b","=","1",")">>,
                  <<"d","o","(","=","1",")">>,
                  <<"d","o","(","a","=","1",")"," ","x">>,
                  <<" ","d","o","(","a","=","1">>,
                  <<"	","d","o","(","a","=","1",")"," ","\n">>,
                  <<"d","o","(","a","=","1",")",")">> }

OtherInputs == { <<"f","i","n","i","s","h","(","m","e","s","s","a","g","e","=","\"","d","o","n","e","\"",")">>,
                 <<"f","i","n","i","s","h","(","m","e","s","s","a","g","e","=","\"","a","\\","\"","b","\"",")">>,
                 <<"f","i","n","i","s","h","(","m","e","s","s","a","g","e","=","\"","a","\\","\"",")">>,
                 <<"f","i","n","i","s","h","(",")">>,
                 <<"f","i","n","i","s","h">>,
                 <<"<","a","n","s","w","e","r",">","f","i","n","i","s","h","(","m","e","s","s","a","g","e","=","\"","d","o","n","e","\"",")","<","/","a","n","s","w","e","r",">">>,
                 <<"<","a","n","s","w","e","r",">","d","o","(",")","<","/","a","n","s","w","e","r",">">>,
                 <<"f","i","n","i","s","h","(","m","e","s","s","a","g","e","=","\"","d","o","n","e","\"",")","<","/","a","n","s","w","e","r",">">>,
                 <<"f","i","n","i","s","h","(","m","e","s","s","a","g","e","=","\"","<","a","n","s","w","e","r",">","\"",")">>,
                 <<"h","e","l","l","o">>,
                 <<"d","o">>,
                 <<"D","o","(",")">>,
                 <<"x"," ","d","o","(",")">>,
                 <<" ","f","i","n","i","s","h","e","d">>,
                 <<>> }

\* the characters of the messages of the finish() inputs
BodyAlphabet == {"a", Backslash, Quote}

RECURSIVE BodiesOf(_)
BodiesOf(n) ==
    IF n = 0 THEN { <<>> }
    ELSE LET shorter == BodiesOf(n - 1)
         IN  shorter \cup { Append(b, c) : b \in shorter, c \in BodyAlphabet }

FinishOpen == <<"f","i","n","i","s","h","(","m","e","s","s","a","g","e","=","\"">>

FinishInputs == { FinishOpen \o b : b \in BodiesOf(MaxBodyLen) }

MoreFinishInputs == { <<"f","i","n","i","s","h","(","m","e","s","s","a","g","e","=","d","o","n","e",")">>,
                      <<"f","i","n","i","s","h","(","t","e","x","t","=","\"","x","\"",","," ","m","e","s","s","a","g","e","=","\"","y","\"",")">>,
                      <<"f","i","n","i","s","h","(","m","e","s","s","a","g","e","=","\"","a","\\","\n","b","\"",")">>,
                      <<"f","i","n","i","s","h","(","m","e","s","s","a","g","e","=","\"","a","\\">>,
                      <<" ","f","i","n","i","s","h","(","m","e","s","s","a","g","e","=","\\","\"","a","\"",","," ","m","e","s","s","a","g","e","=","\"","b","\"",")">> }

Inputs == DoInputs \cup MoreDoInputs \cup OtherInputs \cup FinishInputs \cup MoreFinishInputs

\* stream-side variables while no Request is modelled
StreamIdle ==
    /\ text = <<>>
    /\ sent = 0
    /\ pc = "idle"
    /\ streamOpen = FALSE
    /\ streamsOpened = 0
    /\ rawContent = <<>>
    /\ thinkingBuf = <<>>
    /\ inActionPhase = FALSE
    /\ firstTokenReceived = FALSE
    /\ timeToFirstToken = Nil
    /\ timeToThinkingEnd = Nil
    /\ printed = <<>>
    /\ flips = 0
    /\ response = NoResponse

\* value tokens: parseDoCall hands parseLiteral a token it has trimmed
TokenAlphabet == {Quote, "0", "1", "-", "[", "]", ",", ".", "e", "x", " "}

RECURSIVE StringsOf(_)
StringsOf(n) ==
    IF n = 0 THEN { <<>> }
    ELSE LET shorter == StringsOf(n - 1)
         IN  shorter \cup { Append(t, c) : t \in shorter, c \in TokenAlphabet }

NamedTokens == { <<"t","r","u","e">>,
                 <<"f","a","l","s","e">>,
                 <<"\"","t","r","u","e","\"">>,
                 <<"\"","f","a","l","s","e","\"">>,
                 <<"T","r","u","e">>,
                 <<"1","0","0","0","0","0","0","0","0","0","0","0","0","0","0","0","0","0","0","0">>,
                 <<"9","2","2","3","3","7","2","0","3","6","8","5","4","7","7","5","8","0","7">>,
                 <<"9","2","2","3","3","7","2","0","3","6","8","5","4","7","7","5","8","0","8">>,
                 <<"-","9","2","2","3","3","7","2","0","3","6","8","5","4","7","7","5","8","0","8">>,
                 <<"\"","a",","," ","b","\"">>,
                 <<"[","1",",","-","0","1",","," ","1","0","]">>,
                 <<"\""," ","y"," ","\"">>,
                 <<"1",".","5","0">>,
                 <<"a","b","c">> }

Tokens == { t \in StringsOf(MaxTokenLen) : TrimSpace(t) = t } \cup NamedTokens

\* a call of ParseAction
ParseActionInit ==
    /\ input \in Inputs
    /\ ppc = "call"
    /\ result = [kind |-> "none"]
    /\ written = <<>>
    /\ reparsed = [kind |-> "none"]
    /\ token = <<>>
    /\ lit = [kind |-> "none"]

\* a call of parseLiteral
ParseLiteralInit ==
    /\ input = <<>>
    /\ ppc = "literal"
    /\ result = [kind |-> "none"]
    /\ written = <<>>
    /\ reparsed = [kind |-> "none"]
    /\ token \in Tokens
    /\ lit = [kind |-> "none"]

ParseInit ==
    /\ ParseActionInit \/ ParseLiteralInit
    /\ StreamIdle

\* parseDoCall calls parseLiteral(token)
CallParseLiteral ==
    /\ ppc = "literal"
    /\ lit' = parseLiteral(token)
    /\ ppc' = IF parseLiteral(token).kind = "panic" THEN "literal panicked" ELSE "literal done"
    /\ UNCHANGED <<input, result, written, reparsed, token>>
    /\ UNCHANGED streamVars

\* the caller calls helper.ParseAction(input)
CallParseAction ==
    /\ ppc = "call"
    /\ result' = ParseAction(input)
    /\ ppc' = IF ParseAction(input).kind = "panic" THEN "panicked" ELSE "returned"
    /\ UNCHANGED <<input, written, reparsed, token, lit>>
    /\ UNCHANGED streamVars

\* the Action of an accepted do() expression is written back as text
WriteBack ==
    /\ ppc = "returned"
    /\ HasPrefix(TrimSpace(input), DoPrefix)
    /\ ~result.action.nil
    /\ \E keys \in Orders(OriginalKeys(input)) :
          written' = WriteDo(result.action.m, keys)
    /\ ppc' = "written"
    /\ UNCHANGED <<input, result, reparsed, token, lit>>
    /\ UNCHANGED streamVars

\* the written text is parsed again
Reparse ==
    /\ ppc = "written"
    /\ reparsed' = ParseAction(written)
    /\ ppc' = "reparsed"
    /\ UNCHANGED <<input, result, written, token, lit>>
    /\ UNCHANGED streamVars

ParseNext ==
    \/ CallParseLiteral
    \/ CallParseAction
    \/ WriteBack
    \/ Reparse

ParseSpec == ParseInit /\ [][ParseNext]_vars

(***************************************************************************)
(* Properties of ModelClient.Request (specification Spec).                 *)
(***************************************************************************)
Hello == <<"h","e","l","l","o"," ">>
HelloDo == <<"h","e","l","l","o"," ","d","o","(">>
HelloDoAction == <<"h","e","l","l","o"," ","d","o","(","a","c","t","i","o","n","=">>

\* marker m occurs in s at position i
OccursAt(s, m, i) == i >= 1 /\ i + Len(m) - 1 <= Len(s) /\ SubSeq(s, i, i + Len(m) - 1) = m

\* an occurrence of a marker in s starts at or before position n and ends after it
Straddles(s, n) ==
    \E k \in 1..Len(actionMarkers) :
        \E i \in 1..Len(s) :
            /\ OccursAt(s, actionMarkers[k], i)
            /\ i <= n
            /\ i + Len(actionMarkers[k]) - 1 > n

\* t is s without its leading and trailing white space
IsTrimOf(t, s) ==
    \E a \in 0..Len(s) :
        /\ \A i \in 1..a : IsSpace(s[i])
        /\ a + Len(t) <= Len(s)
        /\ SubSeq(s, a + 1, a + Len(t)) = t
        /\ \A i \in (a + Len(t) + 1)..Len(s) : IsSpace(s[i])
        /\ (t # <<>> => ~IsSpace(t[1]) /\ ~IsSpace(t[Len(t)]))

\* C2: at every point of the live path the text printed so far is a prefix of
\* the text received, and no occurrence of a marker in the full text starts
\* inside the printed text and ends after it; while the text do(action= arrives,
\* in whatever chunks, nothing is printed.
C2_NoPartialMarker ==
    /\ HasPrefix(rawContent, printed)
    /\ HasPrefix(text, rawContent)
    /\ ~Straddles(text, Len(printed))
    /\ (text = DoMarker => printed = <<>>)

\* C2: a marker of the text has arrived in part, after text that was printed
C2_SplitMarkerHeld ==
    /\ pc = "recv"
    /\ ~inActionPhase
    /\ printed # <<>>
    /\ Straddles(text, sent)
    /\ thinkingBuf # <<>>

\* C3 as stated: however hello do( is split, hello and a space are printed and
\* the phase flips exactly once.
C3_HelloDoFlipsOnce ==
    (text = HelloDo /\ pc = "done") => (printed = Hello /\ flips = 1)

\* C3 amended: however hello do(action= is split, exactly hello and a space are
\* printed and the phase flips exactly once; hello do( completes no marker: the
\* phase never flips and what is printed is a prefix of hello and a space.
C3_HelloDoActionFlipsOnce ==
    /\ (text = HelloDoAction /\ pc = "done") => (printed = Hello /\ flips = 1)
    /\ (text = HelloDo) => (flips = 0 /\ ~inActionPhase /\ HasPrefix(Hello, printed))

\* C3: the stream of hello do(action= has ended
C3_HelloDoActionDone ==
    text = HelloDoAction /\ pc = "done" /\ flips = 1 /\ printed = Hello

\* C4: once the live path is in action phase it stays there, prints nothing more
\* and does not flip again; the phase flips at most once.
C4_FlipOnceNoReturn ==
    [][ /\ flips' <= 1
        /\ inActionPhase => (inActionPhase' /\ printed' = printed /\ flips' = flips)
      ]_vars

\* C4: a whole marker arrived after the flip
C4_MarkerAfterFlip ==
    /\ inActionPhase
    /\ timeToThinkingEnd.set
    /\ Contains(From(rawContent, timeToThinkingEnd.t + 1), FinishMarker)

\* C5: when the text holds a marker, the one selected is finish(message= if it
\* occurs at all and do(action= otherwise; action is the text from the first
\* occurrence of the selected marker to the end, thinking the text before it
\* without its surrounding white space.
C5_PriorityNotPosition ==
    (pc = "done" /\ (Contains(response.RawContent, FinishMarker)
                         \/ Contains(response.RawContent, DoMarker))) =>
        LET raw == response.RawContent
            sel == IF \E i \in 1..Len(raw) : OccursAt(raw, FinishMarker, i)
                   THEN FinishMarker ELSE DoMarker
        IN  \E i \in 1..Len(raw) :
                /\ OccursAt(raw, sel, i)
                /\ \A j \in 1..(i - 1) : ~OccursAt(raw, sel, j)
                /\ response.Action = From(raw, i)
                /\ IsTrimOf(response.Thinking, SubSeq(raw, 1, i - 1))
                /\ SubSeq(raw, 1, i - 1) \o response.Action = raw

\* C5: do(action= occurs before finish(message= and finish(message= was selected
C5_FinishAfterDo ==
    /\ pc = "done"
    /\ Index(response.RawContent, DoMarker) # 0
    /\ Index(response.RawContent, DoMarker) < Index(response.RawContent, FinishMarker)
    /\ HasPrefix(response.Action, FinishMarker)
    /\ Contains(response.Thinking, DoMarker)

\* Request has returned
Returned == pc \in {"done", "failed"}

\* C11: when stream creation or a Recv fails (a transport error or a
\* cancellation), after any number of deltas and in either phase, Request
\* returns the error and no ModelResponse, and it does not try again: no step
\* follows the failure and at most one stream is opened by a call.
C11_ErrorNoResponseNoRetry ==
    /\ [](streamsOpened <= 1)
    /\ [](pc = "failed" => ~response.ok)
    /\ [](response.ok => pc = "done")
    /\ [][pc = "failed" => pc' = "failed"]_vars
    /\ [][streamsOpened' # streamsOpened => (pc = "start" /\ streamsOpened = 0)]_vars

\* C11: the stream failed in action phase, after deltas were received and
\* thinking text was printed
C11_FailedInActionPhase ==
    /\ pc = "failed"
    /\ inActionPhase
    /\ printed # <<>>
    /\ timeToThinkingEnd.set
    /\ streamsOpened = 1
    /\ ~response.ok

\* C12: a stream that Request opened is closed when Request has returned,
\* whether at end of stream, on a Recv error or on a cancellation; it is open
\* at every Recv, and it is closed only by the step that returns.
C12_StreamClosedOnEveryExit ==
    /\ [](Returned => ~streamOpen)
    /\ [](pc = "recv" => (streamOpen /\ streamsOpened = 1))
    /\ [][(streamOpen /\ ~streamOpen') => (pc = "recv" /\ Returned')]_vars

\* C12: the stream ended normally after the whole text, and the stream that
\* was opened is closed
C12_ClosedAtEndOfStream ==
    /\ pc = "done"
    /\ streamsOpened = 1
    /\ ~streamOpen
    /\ sent = Len(text)
    /\ text # <<>>

\* the text holds no marker
NoMarker(s) == \A i \in 1..Len(s) : \A k \in 1..Len(actionMarkers) : ~OccursAt(s, actionMarkers[k], i)

\* the first position of s at which tag occurs; 0 when it does not occur
FirstAt(s, tag) ==
    IF \E i \in 1..Len(s) : OccursAt(s, tag, i)
    THEN CHOOSE i \in 1..Len(s) :
             OccursAt(s, tag, i) /\ \A j \in 1..(i - 1) : ~OccursAt(s, tag, j)
    ELSE 0

ThinkFooAnswerBar == <<"<","t","h","i","n","k",">","f","o","o","<","/","t","h","i","n","k",">","<","a","n","s","w","e","r",">","b","a","r","<","/","a","n","s","w","e","r",">">>
AnswerABody == <<"<","a","n","s","w","e","r",">","a","<","/","a","n","s","w","e","r",">","b">>
NoMarkersHere == <<"n","o"," ","m","a","r","k","e","r","s"," ","h","e","r","e">>

\* what C16 says of a text without marker beside the closing tag: without
\* <answer>, thinking is empty and action is the text unchanged; with <answer>,
\* thinking is the text before the first <answer> without any <think> and
\* </think>, trimmed; and the two texts of the specification split as it says.
LegacySplit ==
    (pc = "done" /\ NoMarker(response.RawContent)) =>
        LET raw == response.RawContent
            a   == FirstAt(raw, AnswerTag)
        IN  /\ a = 0 => (response.Thinking = <<>> /\ response.Action = raw)
            /\ a # 0 =>
                   /\ IsTrimOf(response.Thinking,
                               RemoveAll(RemoveAll(SubSeq(raw, 1, a - 1), ThinkTag), ThinkEndTag))
                   /\ ~Contains(SubSeq(raw, 1, a - 1), ThinkTag) /\ ~Contains(SubSeq(raw, 1, a - 1), ThinkEndTag)
                          => IsTrimOf(response.Thinking, SubSeq(raw, 1, a - 1))
            /\ raw = ThinkFooAnswerBar =>
                   (response.Thinking = <<"f","o","o">> /\ response.Action = <<"b","a","r">>)
            /\ raw = NoMarkersHere => (response.Thinking = <<>> /\ response.Action = NoMarkersHere)

\* C16 as stated: in a text without marker, what follows the first <answer> is
\* the action once a closing tag at its end is stripped and it is trimmed: text
\* after <answer> that is not the trailing tag is kept as is.
C16_OnlyTrailingTagStripped ==
    /\ LegacySplit
    /\ (pc = "done" /\ NoMarker(response.RawContent)
           /\ FirstAt(response.RawContent, AnswerTag) # 0) =>
           LET raw   == response.RawContent
               after == From(raw, FirstAt(raw, AnswerTag) + Len(AnswerTag))
           IN  response.Action = TrimSpace(TrimSuffix(TrimSpace(after), AnswerEndTag))

\* C16 amended: in a text without marker, what follows the first <answer> is
\* the action once every </answer> in it is removed, wherever it stands, and it
\* is trimmed: <answer>a</answer>b gives the action ab.
C16_EveryClosingTagRemoved ==
    /\ LegacySplit
    /\ (pc = "done" /\ NoMarker(response.RawContent)
           /\ FirstAt(response.RawContent, AnswerTag) # 0) =>
           LET raw   == response.RawContent
               after == From(raw, FirstAt(raw, AnswerTag) + Len(AnswerTag))
           IN  /\ IsTrimOf(response.Action, RemoveAll(after, AnswerEndTag))
               /\ ~Contains(after, AnswerEndTag) => IsTrimOf(response.Action, after)
               /\ raw = AnswerABody => response.Action = <<"a","b">>

\* C16: the text <answer>a</answer>b was split, the closing tag inside the
\* answer removed
C16_InnerTagRemoved ==
    /\ pc = "done"
    /\ response.RawContent = AnswerABody
    /\ response.Thinking = <<>>
    /\ response.Action = <<"a","b">>

\* the stream has ended with text held in the thinking buffer: no marker was
\* completed
EndedHolding == pc = "done" /\ ~inActionPhase /\ thinkingBuf # <<>>

\* p is a non-empty proper prefix of a marker
IsMarkerPrefix(p) ==
    \E k \in 1..Len(actionMarkers) :
        /\ Len(p) >= 1
        /\ Len(p) < Len(actionMarkers[k])
        /\ p = SubSeq(actionMarkers[k], 1, Len(p))

\* what C17 says beside the place of the held text in the split: the text
\* held at end of stream ends with a proper prefix of a marker, the step that
\* ends the stream prints nothing, and the held text is the end of rawContent,
\* after all that was printed; rawContent is returned whole and holds no marker.
HeldNeverPrinted ==
    /\ [](EndedHolding =>
            /\ \E n \in 1..Len(thinkingBuf) :
                   IsMarkerPrefix(SubSeq(thinkingBuf, Len(thinkingBuf) - n + 1, Len(thinkingBuf)))
            /\ rawContent = printed \o thinkingBuf
            /\ response.RawContent = rawContent
            /\ rawContent = text
            /\ NoMarker(rawContent))
    /\ [][pc' = "done" => printed' = printed]_vars

\* C17 as stated: the text held at end of stream is never printed, and it is
\* part of rawContent and of the thinking or the action returned.
C17_HeldTextInSplit ==
    /\ HeldNeverPrinted
    /\ [](EndedHolding =>
            (Contains(response.Thinking, thinkingBuf) \/ Contains(response.Action, thinkingBuf)))

\* C17 amended: the text held at end of stream is never printed and is part of
\* rawContent; the action returned ends with the marker prefix that kept it
\* held; without <answer> in the text the action is rawContent and holds the
\* held text whole, with <answer> the held text is in the action only as the
\* legacy rule leaves it (tags removed, trimmed).
C17_HeldTextSurfaces ==
    /\ HeldNeverPrinted
    /\ [](EndedHolding =>
            /\ \E n \in 1..Len(thinkingBuf) :
                   LET p == SubSeq(thinkingBuf, Len(thinkingBuf) - n + 1, Len(thinkingBuf))
                   IN  IsMarkerPrefix(p) /\ HasSuffix(response.Action, p)
            /\ FirstAt(rawContent, AnswerTag) = 0 =>
                   (response.Action = rawContent /\ HasSuffix(response.Action, thinkingBuf))
            /\ FirstAt(rawContent, AnswerTag) # 0 =>
                   IsTrimOf(response.Action,
                            RemoveAll(From(rawContent, FirstAt(rawContent, AnswerTag) + Len(AnswerTag)),
                                      AnswerEndTag)))

\* C17: the stream ended holding text of which the action returned has only
\* the end
C17_HeldTextTrimmed ==
    /\ EndedHolding
    /\ printed = <<>>
    /\ HasSuffix(response.RawContent, thinkingBuf)
    /\ ~Contains(response.Action, thinkingBuf)
    /\ response.Action = <<"d">>

\* C18: in every state of a Request, time-to-first-token is set exactly when a
\* non-empty delta has been received, and time-to-thinking-end exactly when the
\* live path is in action phase, so the second is never set without the first;
\* each is set once, to the reading of the clock at the first non-empty delta
\* and at the flip, and never overwritten; a chunk that brings no text changes
\* nothing; the response returns both as they are.
C18_MetricsSetOnce ==
    /\ [](/\ timeToFirstToken.set <=> rawContent # <<>>
          /\ timeToFirstToken.set <=> firstTokenReceived
          /\ timeToThinkingEnd.set <=> inActionPhase
          /\ timeToThinkingEnd.set =>
                 (timeToFirstToken.set /\ timeToFirstToken.t <= timeToThinkingEnd.t)
          /\ pc = "done" =>
                 /\ response.TimeToFirstToken = timeToFirstToken
                 /\ response.TimeToThinkingEnd = timeToThinkingEnd)
    /\ [][/\ timeToFirstToken.set => timeToFirstToken' = timeToFirstToken
          /\ timeToThinkingEnd.set => timeToThinkingEnd' = timeToThinkingEnd
          /\ (~timeToFirstToken.set /\ timeToFirstToken'.set) =>
                 /\ rawContent = <<>>
                 /\ rawContent' # <<>>
                 /\ timeToFirstToken' = At(Since(Len(rawContent')))
          /\ (~inActionPhase /\ inActionPhase') =>
                 timeToThinkingEnd' = At(Since(Len(rawContent')))
          /\ (pc = "recv" /\ pc' = "recv" /\ sent' = sent) => UNCHANGED vars
         ]_vars

\* C18: a response was returned with both times set, the first token before
\* the end of the thinking
C18_FirstTokenBeforeThinkingEnd ==
    /\ pc = "done"
    /\ response.TimeToFirstToken.set
    /\ response.TimeToThinkingEnd.set
    /\ response.TimeToFirstToken.t < response.TimeToThinkingEnd.t
    /\ response.TimeToThinkingEnd.t < Len(rawContent)

\* C19: at every point rawContent is the text of the deltas received so far,
\* in their order, whatever the phase; the response of a successful Request
\* holds the whole text as RawContent and, as Thinking and Action, the split of
\* that text alone: the chunks the text came in, and what the live path held
\* or printed, make no difference.
C19_ResultDependsOnTextOnly ==
    /\ rawContent = SubSeq(text, 1, sent)
    /\ pc = "done" =>
           /\ response.ok
           /\ response.RawContent = text
           /\ response.Thinking = parseResponse(text).thinking
           /\ response.Action = parseResponse(text).action

\* C19: a response was returned whose text came in part in action phase, and
\* that part is in RawContent and in Action
C19_ActionPhaseDeltasKept ==
    /\ pc = "done"
    /\ inActionPhase
    /\ timeToThinkingEnd.t < Len(text)
    /\ response.RawContent = text
    /\ HasSuffix(response.Action, <<"x">>)
    /\ Len(response.Action) > Len(DoMarker)

\* the occurrences of the markers in s: the marker and the position of each
MarkerOccurrences(s) ==
    { o \in (1..Len(actionMarkers)) \X (1..Len(s)) : OccursAt(s, actionMarkers[o[1]], o[2]) }

\* C20: when the text holds exactly one occurrence of a marker, then however it
\* is chunked the live path has flipped once when the stream ends, what it
\* printed is the text before the marker, and the authoritative Thinking is
\* that text without its surrounding white space.
C20_OneMarkerLiveMatchesSplit ==
    (pc = "done" /\ Cardinality(MarkerOccurrences(text)) = 1) =>
        \A o \in MarkerOccurrences(text) :
            /\ inActionPhase
            /\ flips = 1
            /\ printed = SubSeq(text, 1, o[2] - 1)
            /\ IsTrimOf(response.Thinking, printed)
            /\ response.Action = From(text, o[2])

\* C20: the one marker of hello do(action= arrived apart from the text before
\* it; hello and a space were printed, and Thinking is hello
C20_PrintedIsThinkingUntrimmed ==
    /\ pc = "done"
    /\ Cardinality(MarkerOccurrences(text)) = 1
    /\ thinkingBuf = DoMarker
    /\ printed = Hello
    /\ response.Thinking = <<"h","e","l","l","o">>

(***************************************************************************)
(* Properties of helper.ParseAction and parseLiteral (specification        *)
(* ParseSpec).                                                             *)
(***************************************************************************)
\* a call of ParseAction has ended
CallEnded == ppc \in {"returned", "panicked", "written", "reparsed"}

\* a call of ParseAction has returned an Action
Accepted == CallEnded /\ result.kind = "return" /\ ~result.action.nil

\* the input is of the do form
IsDoInput == HasPrefix(TrimSpace(input), DoPrefix)

\* C1: whatever the input, ParseAction returns (an Action or an error); it never
\* panics.
C1_NeverPanics == CallEnded => result.kind = "return"

\* C6: ParseAction returns exactly one of (an Action, no error) and (no Action,
\* an error), whatever the input: a failure leaves no partly filled Action.
C6_ActionXorError ==
    CallEnded => (result.kind = "return" /\ (result.action.nil <=> ~result.err.nil))

\* C7: every Action returned holds _metadata, "do" for a do() expression and
\* "finish" for a finish() expression.
C7_MetadataIsKind ==
    Accepted =>
        /\ MetaKey \in DOMAIN result.action.m
        /\ result.action.m[MetaKey] =
               IF IsDoInput THEN StrVal(<<"d","o">>) ELSE StrVal(FinishPrefix)

\* an optional sign and then decimal digits only, at least one
IsIntToken(s) ==
    LET ds == IF s # <<>> /\ Head(s) \in {"+", "-"} THEN Tail(s) ELSE s
    IN  ds # <<>> /\ \A i \in 1..Len(ds) : IsDigit(ds[i])

\* the sign and the digits of an integer token
IntTokenNeg(s) == Head(s) = "-"
IntTokenMag(s) ==
    LET ds  == IF Head(s) \in {"+", "-"} THEN Tail(s) ELSE s
        mag == StripLeadingZeros(ds)
    IN  IF mag = <<>> THEN <<"0">> ELSE mag

\* what C8 says of every token but the integer tokens: the rules apply in their
\* order and the first that matches decides
LiteralRulesInOrder ==
    /\ ppc = "literal done" =>
        /\ lit.kind = "ok" => lit.val.type \in LiteralTypes
        /\ (lit.kind = "ok" /\ lit.val.type = "string") =>
               /\ Len(token) >= 2
               /\ token[1] = Quote
               /\ token[Len(token)] = Quote
               /\ lit.val.str = SubSeq(token, 2, Len(token) - 1)
        /\ (Len(token) >= 2 /\ token[1] = Quote /\ token[Len(token)] = Quote) =>
               (lit.kind = "ok" /\ lit.val.type = "string")
        /\ token = <<"t","r","u","e">> => lit = Ok(BoolVal(TRUE))
        /\ token = <<"f","a","l","s","e">> => lit = Ok(BoolVal(FALSE))
        /\ (lit.kind = "ok" /\ lit.val.type = "bool") =>
               token \in { <<"t","r","u","e">>, <<"f","a","l","s","e">> }
        /\ (token # <<>> /\ token[1] = "[" /\ token[Len(token)] = "]") =>
               (lit.kind = "err" \/ lit.val.type = "ints")
    /\ Accepted =>
        \A k \in DOMAIN result.action.m : result.action.m[k].type \in LiteralTypes

NoFloat(m) == \A k \in DOMAIN m : m[k].type # "float"

AnswerFinishDone == <<"<","a","n","s","w","e","r",">","f","i","n","i","s","h","(","m","e","s","s","a","g","e","=","\"","d","o","n","e","\"",")","<","/","a","n","s","w","e","r",">">>
Done == <<"d","o","n","e">>

Rejected == CallEnded /\ result.kind = "return" /\ result.action.nil /\ ~result.err.nil

DoActionX == <<"d","o","(","a","c","t","i","o","n","=","\"","x","\"">>

\* C13: an input that, once trimmed, starts with do( but does not end with ) is
\* rejected with an error, and so is an input that starts with neither do( nor
\* finish; hence an accepted do-form input has the prefix do( and the suffix ).
C13_DoNeedsPrefixAndSuffix ==
    CallEnded =>
        LET s            == TrimSpace(input)
            startsDo     == Len(s) >= 3 /\ SubSeq(s, 1, 3) = <<"d","o","(">>
            startsFinish == Len(s) >= 6 /\ SubSeq(s, 1, 6) = <<"f","i","n","i","s","h">>
            endsParen    == s # <<>> /\ s[Len(s)] = ")"
        IN  /\ (startsDo /\ ~endsParen) => Rejected
            /\ (~startsDo /\ ~startsFinish) => Rejected
            /\ (startsDo /\ Accepted) => endsParen

\* C13: do(action="x" without its closing parenthesis was rejected as invalid
\* do() syntax
C13_MissingParenRejected ==
    /\ Rejected
    /\ input = DoActionX
    /\ result.err.msg = "failed to parse do() action"
    /\ result.err.what.msg = "invalid do() syntax"

\* the number of = in an argument token
CountEq(part) == Cardinality({ i \in 1..Len(part) : part[i] = "=" })

\* the position of the first = of an argument token that has one
FirstEq(part) ==
    CHOOSE i \in 1..Len(part) : part[i] = "=" /\ \A j \in 1..(i - 1) : part[j] # "="

\* the argument tokens of a do-form input: its body split on comma-space
ArgTokens ==
    LET s == TrimSpace(input)
    IN  Split(SubSeq(s, 4, Len(s) - 1), ArgSep)

\* the input is do( body ) with a body that is not blank
HasArgs ==
    LET s == TrimSpace(input)
    IN  /\ Len(s) >= 4
        /\ SubSeq(s, 1, 3) = <<"d","o","(">>
        /\ s[Len(s)] = ")"
        /\ TrimSpace(SubSeq(s, 4, Len(s) - 1)) # <<>>

\* what C14 says of the tokens beside their number of =: a token with no =
\* fails the whole parse, with the argument error when it is the first token;
\* in an accepted expression every token gives the key that is the trimmed
\* text before its first = and the value parsed from the trimmed text after it
\* (the last token of a key decides its value).
ArgsSplitAtFirstEq ==
    (CallEnded /\ HasArgs) =>
        LET parts == ArgTokens
        IN  /\ (\E i \in 1..Len(parts) : CountEq(parts[i]) = 0) => ~Accepted
            /\ CountEq(parts[1]) = 0 =>
                   /\ Rejected
                   /\ result.err.what.msg = "invalid argument"
                   /\ result.err.what.what = parts[1]
            /\ Accepted =>
                   \A i \in 1..Len(parts) :
                       LET eq  == FirstEq(parts[i])
                           key == TrimSpace(SubSeq(parts[i], 1, eq - 1))
                           val == TrimSpace(SubSeq(parts[i], eq + 1, Len(parts[i])))
                       IN  /\ key \in DOMAIN result.action.m
                           /\ (\A j \in (i + 1)..Len(parts) :
                                   TrimSpace(SubSeq(parts[j], 1, FirstEq(parts[j]) - 1)) # key)
                               => result.action.m[key] = parseLiteral(val).val

\* C14 as stated: every token of an accepted expression holds exactly one =, so
\* no = ends up inside a value.
C14_ExactlyOneEq ==
    /\ ArgsSplitAtFirstEq
    /\ (Accepted /\ HasArgs) =>
           \A i \in 1..Len(ArgTokens) : CountEq(ArgTokens[i]) = 1

DoAEqB == <<"d","o","(","a","=","\"","a","=","b","\"",")">>

\* C14 amended: every token must hold at least one =; it is split at its first
\* =, so a further = stays inside the value: do(a="a=b") is accepted and a is
\* the string a=b.
C14_SplitAtFirstEq ==
    /\ ArgsSplitAtFirstEq
    /\ (Accepted /\ HasArgs) =>
           \A i \in 1..Len(ArgTokens) : CountEq(ArgTokens[i]) >= 1
    /\ (CallEnded /\ input = DoAEqB) =>
           /\ Accepted
           /\ result.action.m = MapSet(NewAction(<<"d","o">>), <<"a">>, StrVal(<<"a","=","b">>))

\* C14: do(a="a=b") was accepted with the second = inside the value
C14_SecondEqInValue ==
    /\ Accepted
    /\ input = DoAEqB
    /\ CountEq(ArgTokens[1]) = 2
    /\ result.action.m[<<"a">>] = StrVal(<<"a","=","b">>)

\* the input is of the finish form
IsFinishInput == HasPrefix(TrimSpace(input), FinishPrefix)

\* the first double quote at or after position i of s that no backslash
\* escapes, a backslash escaping the character after it (a line feed excepted);
\* 0 when there is none
RECURSIVE UnescapedQuote(_, _)
UnescapedQuote(s, i) ==
    IF i > Len(s) THEN 0
    ELSE IF s[i] = Quote THEN i
    ELSE IF s[i] = Backslash /\ i + 1 <= Len(s) /\ s[i + 1] # "\n"
    THEN UnescapedQuote(s, i + 2)
    ELSE UnescapedQuote(s, i + 1)

\* the last double quote at or after position i of s; 0 when there is none
LastQuote(s, i) ==
    IF \E j \in i..Len(s) : s[j] = Quote
    THEN CHOOSE j \in i..Len(s) : s[j] = Quote /\ \A k \in (j + 1)..Len(s) : s[k] # Quote
    ELSE 0

\* where the text of the message starts: after the first message=", 0 if none
MessageStart ==
    LET s == TrimSpace(input)
    IN  IF \E i \in 1..Len(s) : OccursAt(s, MessageOpen, i)
        THEN (CHOOSE i \in 1..Len(s) :
                  /\ OccursAt(s, MessageOpen, i)
                  /\ \A j \in 1..(i - 1) : ~OccursAt(s, MessageOpen, j)) + Len(MessageOpen)
        ELSE 0

\* ParseAction returned the finish Action whose message is the text of the
\* input from MessageStart up to position q - 1
FinishMessageUpTo(q) ==
    /\ Accepted
    /\ result.action.m = MapSet(NewAction(FinishPrefix), MessageKey,
                                StrVal(SubSeq(TrimSpace(input), MessageStart, q - 1)))

\* ParseAction returned the error of a message that was not found
MessageNotFound == Rejected /\ result.err.msg = "message not found"

FinishDone == <<"f","i","n","i","s","h","(","m","e","s","s","a","g","e","=","\"","d","o","n","e","\"",")">>
FinishEscaped == <<"f","i","n","i","s","h","(","m","e","s","s","a","g","e","=","\"","a","\\","\"","b","\"",")">>

\* C15 as stated: the message of a finish-form input is the text between the
\* first message=" and the next double quote that no backslash escapes; an
\* escaped quote is never the closing boundary, so without an unescaped quote
\* no message is found and the parse returns an error; finish(message="done")
\* yields done.
C15_EscapedQuoteNeverCloses ==
    (CallEnded /\ IsFinishInput) =>
        LET s == TrimSpace(input)
            q == IF MessageStart = 0 THEN 0 ELSE UnescapedQuote(s, MessageStart)
        IN  /\ q # 0 => FinishMessageUpTo(q)
            /\ q = 0 => MessageNotFound
            /\ input = FinishDone => result.action.m[MessageKey] = StrVal(Done)

\* C15 amended: the message is the text between the first message=" and the
\* next double quote that no backslash escapes; when every later quote is
\* escaped, the last of them closes the message; the parse returns an error
\* only when no message=" or no quote after it is found; finish(message="done")
\* yields done.
C15_LastEscapedQuoteMayClose ==
    (CallEnded /\ IsFinishInput) =>
        LET s == TrimSpace(input)
            q == IF MessageStart = 0 THEN 0 ELSE UnescapedQuote(s, MessageStart)
            l == IF MessageStart = 0 THEN 0 ELSE LastQuote(s, MessageStart)
        IN  /\ q # 0 => FinishMessageUpTo(q)
            /\ (q = 0 /\ l # 0) => FinishMessageUpTo(l)
            /\ l = 0 => MessageNotFound
            /\ input = FinishDone => result.action.m[MessageKey] = StrVal(Done)

\* C15: the message of finish(message="a\"b") holds its escaped quote
C15_EscapedQuoteInside ==
    /\ Accepted
    /\ input = FinishEscaped
    /\ result.action.m[MessageKey] = StrVal(<<"a", Backslash, Quote, "b">>)

=============================================================================
